---- MODULE Spec2Model ----
(***************************************************************************)
(* Model of the pricecatcher synchronisation scripts:                      *)
(*   bulk_load_price.py    backfill, one period per calendar month         *)
(*   inc_load_price.py     incremental, one period per day                 *)
(*   load_transactions.py  one-shot loader of one fixed monthly file       *)
(* Each script checks the DuckDB file out of Google Drive, merges monthly  *)
(* parquet files into table price, records progress in                     *)
(* data_processing_log and uploads the file back.                          *)
(*                                                                         *)
(* Dates are day numbers, day 1 being 2022-01-01; the calendar is cut to   *)
(* months of DaysPerMonth days.  A table is a bag of rows.                 *)
(* The row count the DuckDB result object reports for an INSERT            *)
(* (.rowcount / .row_count) is taken to be the number of rows inserted.    *)
(***************************************************************************)
EXTENDS Integers, Sequences, FiniteSets, Bags, TLC

\* ---------------------------------------------------------------- bounds
MaxDay == 3
GenYears == 2
DaysPerMonth == 2
MaxSourceRows == 2
MaxLoadedRows == 2

\* ------------------------------------------------------ program constants
\* datetime(2022, 1, 1): the default of get_last_processed_date, START_DATE
EpochDay == 1
\* TRANSACTION_URL .../pricecatcher_2022-02.parquet
TransactionMonth == 2
\* START_DATE = date(2022, 1, 1): the first year of the archive
FirstYear == 2022

Days == 1..MaxDay
MonthOf(d) == ((d - 1) \div DaysPerMonth) + 1
Months == 1..MonthOf(MaxDay)
Premises == {"P1"}
Items == {"I1"}
Prices == {1, 2}
Rows == [date : Days, premise_code : Premises, item_code : Items, price : Prices]
\* a second slice of the source: two premises at one price
WidePremises == {"P1", "P2"}
WideRows == [date : Days, premise_code : WidePremises, item_code : Items, price : {1}]

Runners == {1, 2}
SeqRunners == {1}
NoFilter == 0

VARIABLES today, published, files, remote, run, gen

vars == <<today, published, files, remote, run, gen>>

\* ------------------------------------------------------------- database
NoLog == [d \in {} |-> 0]
EmptyDB == [priceTable |-> "none", price |-> EmptyBag, logTable |-> FALSE, log |-> NoLog]
NoTemp == [exists |-> FALSE, rows |-> EmptyBag]
NoMerge == [done |-> FALSE, table |-> "none", before |-> EmptyBag, batch |-> EmptyBag,
            filter |-> NoFilter, ok |-> FALSE, rowcount |-> 0, after |-> EmptyBag]

SameId(x, t) ==
    /\ x.date = t.date
    /\ x.premise_code = t.premise_code
    /\ x.item_code = t.item_code

Identity(t) == <<t.date, t.premise_code, t.item_code>>

Identities(bag) == {Identity(t) : t \in BagToSet(bag)}

SetMax(S) == CHOOSE x \in S : \A y \in S : y <= x

\* CREATE TABLE IF NOT EXISTS price (..., PRIMARY KEY (date, premise_code, item_code))
CreatePriceTable(db) ==
    IF db.priceTable = "none" THEN [db EXCEPT !.priceTable = "pk"] ELSE db

\* CREATE TABLE IF NOT EXISTS price (...) without a key (load_transactions)
CreatePriceTableNoKey(db) ==
    IF db.priceTable = "none" THEN [db EXCEPT !.priceTable = "nopk"] ELSE db

\* CREATE TABLE IF NOT EXISTS data_processing_log (processed_date DATE PRIMARY KEY, ...)
CreateLogTable(db) ==
    IF db.logTable THEN db ELSE [db EXCEPT !.logTable = TRUE, !.log = NoLog]

\* SELECT MIN(processed_date) in place of MAX
LastProcessedDateMin(db) ==
    IF db.logTable /\ DOMAIN db.log # {}
    THEN CHOOSE x \in DOMAIN db.log : \A y \in DOMAIN db.log : x <= y
    ELSE EpochDay

\* the value get_last_processed_date returns
LastProcessedDate(db) ==
    IF db.logTable /\ DOMAIN db.log # {} THEN SetMax(DOMAIN db.log) ELSE EpochDay

\* a CREATE OR REPLACE TABLE in place of CREATE TABLE IF NOT EXISTS
AfterLastProcessedDateReset(db) ==
    [db EXCEPT !.logTable = TRUE, !.log = NoLog]

\* the database get_last_processed_date leaves behind
AfterLastProcessedDate(db) ==
    IF db.logTable THEN db ELSE CreateLogTable(db)

\* the query without its NOT EXISTS clause
NewRecordsAll(price, temp, f) ==
    {t \in BagToSet(temp) : f = NoFilter \/ t.date = f}

\* WITH new_records AS (SELECT DISTINCT t.* FROM temp_price t
\*   [WHERE DATE(t.date) = ?] AND NOT EXISTS (SELECT 1 FROM price x WHERE same identity))
NewRecords(price, temp, f) ==
    {t \in BagToSet(temp) :
        /\ (f = NoFilter \/ t.date = f)
        /\ ~ \E x \in BagToSet(price) : SameId(x, t)}

\* two different rows of the set carry the same primary key
KeyConflict(rows) == \E a, b \in rows : a # b /\ SameId(a, b)

\* an INSERT OR REPLACE in place of the INSERT
DedupInsertReplace(table, price, temp, f) ==
    LET rows == {t \in BagToSet(temp) : f = NoFilter \/ t.date = f}
        kept == {x \in BagToSet(price) : ~ \E t \in rows : SameId(x, t)}
        one == {t \in rows : \A u \in rows : SameId(u, t) => u.price <= t.price}
    IN  [ok |-> TRUE, price |-> SetToBag(kept \cup one), rowcount |-> Cardinality(one)]

\* INSERT INTO price SELECT * FROM new_records: one statement, rolled back
\* as a whole when the primary key of price rejects a row
DedupInsert(table, price, temp, f) ==
    LET new == NewRecords(price, temp, f) IN
    IF /\ table = "pk"
       /\ \/ KeyConflict(new)
          \/ \E t \in new, x \in BagToSet(price) : SameId(x, t)
    THEN [ok |-> FALSE, price |-> price, rowcount |-> 0]
    ELSE [ok |-> TRUE, price |-> price (+) SetToBag(new), rowcount |-> Cardinality(new)]

\* INSERT INTO price SELECT * FROM read_parquet(?)  (load_transactions)
PlainInsert(table, price, rows) ==
    IF /\ table = "pk"
       /\ \/ \E t \in BagToSet(rows) : CopiesIn(t, rows) > 1
          \/ KeyConflict(BagToSet(rows))
          \/ \E t \in BagToSet(rows), x \in BagToSet(price) : SameId(x, t)
    THEN [ok |-> FALSE, price |-> price, rowcount |-> 0]
    ELSE [ok |-> TRUE, price |-> price (+) rows, rowcount |-> BagCardinality(rows)]

\* SELECT DISTINCT date as processed_date FROM temp_price
DistinctDates(temp) == {t.date : t \in BagToSet(temp)}

\* the dates of a set in ascending order (ORDER BY processed_date)
RECURSIVE Ascending(_)
Ascending(ds) ==
    IF ds = {} THEN <<>>
    ELSE LET d == CHOOSE x \in ds : \A y \in ds : x <= y IN <<d>> \o Ascending(ds \ {d})

\* an upsert that adds the new count to the stored one
RecordProgressSum(log, ds, now, url, n) ==
    [d \in (DOMAIN log) \cup ds |->
        IF d \notin ds THEN log[d]
        ELSE IF d \in DOMAIN log
             THEN [log[d] EXCEPT !.processed_at = now, !.records_loaded = @ + n]
             ELSE [processed_at |-> now, file_url |-> url, records_loaded |-> n]]

\* ON CONFLICT DO NOTHING in place of DO UPDATE
RecordProgressKeep(log, ds, now, url, n) ==
    [d \in (DOMAIN log) \cup ds |->
        IF d \in DOMAIN log THEN log[d]
        ELSE [processed_at |-> now, file_url |-> url, records_loaded |-> n]]

\* INSERT INTO data_processing_log ... ON CONFLICT (processed_date) DO UPDATE SET
\*   processed_at = CURRENT_TIMESTAMP, records_loaded = excluded.records_loaded
\* executed for each date of ds
RecordProgress(log, ds, now, url, n) ==
    [d \in (DOMAIN log) \cup ds |->
        IF d \notin ds THEN log[d]
        ELSE IF d \in DOMAIN log
             THEN [log[d] EXCEPT !.processed_at = now, !.records_loaded = n]
             ELSE [processed_at |-> now, file_url |-> url, records_loaded |-> n]]

\* ------------------------------------------------------------------ runs
\* A run record: pc, mode, the local copy (hasDb, db), temp_price (temp), the
\* loop variable (cur) and its limit (end).  The other fields only record
\* what happened: start (the first period), base (the database as fetched),
\* written (the dates of the ledger writes, in order),
\* src (the source files at the start), visited (the periods processed, in
\* order), missing (the periods answered 404), last (the latest INSERT),
\* final (the local database when the run ended), err (the failure).
IdleRun ==
    [pc |-> "idle", mode |-> "none", hasDb |-> FALSE, db |-> EmptyDB, temp |-> NoTemp,
     cur |-> 0, end |-> 0, start |-> 0, base |-> EmptyDB, err |-> "none",
     visited |-> <<>>, missing |-> {}, last |-> NoMerge, final |-> EmptyDB,
     written |-> <<>>,
     src |-> [m \in Months |-> EmptyBag]]

\* the monthly file a period is read from
PeriodMonth(rn) ==
    IF rn.mode = "inc" THEN MonthOf(rn.cur)
    ELSE IF rn.mode = "bulk" THEN rn.cur
    ELSE TransactionMonth

\* a loop that steps over a period
NextPeriodSkip(rn) ==
    IF rn.mode = "load" THEN [rn EXCEPT !.pc = "upload", !.visited = Append(@, rn.cur)]
    ELSE [rn EXCEPT !.cur = @ + 2,
                    !.visited = Append(@, rn.cur),
                    !.pc = IF rn.cur + 2 <= rn.end THEN "period" ELSE "upload"]

\* date += timedelta(days=1) / current_date += relativedelta(months=1), and the
\* loop test; load_transactions has one period
NextPeriod(rn) ==
    IF rn.mode = "load" THEN [rn EXCEPT !.pc = "upload", !.visited = Append(@, rn.cur)]
    ELSE [rn EXCEPT !.cur = @ + 1,
                    !.visited = Append(@, rn.cur),
                    !.pc = IF rn.cur + 1 <= rn.end THEN "period" ELSE "upload"]

\* an except clause that re-raises without cleanup_temp_files()
FailedNoCleanup(rn, kind) ==
    [rn EXCEPT !.pc = "failed", !.err = kind, !.final = rn.db]

\* except Exception: cleanup_temp_files(); raise e
Failed(rn, kind) ==
    [rn EXCEPT !.pc = "failed", !.err = kind, !.hasDb = FALSE, !.db = EmptyDB,
               !.temp = NoTemp, !.final = rn.db]

\* ------------------------------------------------- generate_month_urls
\* calendar dates [year, month, day], as datetime.date holds them
IsLeap(y) == (y % 4 = 0 /\ y % 100 # 0) \/ y % 400 = 0

DaysIn(y, m) ==
    IF m = 2 THEN (IF IsLeap(y) THEN 29 ELSE 28)
    ELSE IF m \in {4, 6, 9, 11} THEN 30 ELSE 31

\* the dates the function is tried on: the first, the 15th and the last day
\* of every month of GenYears years
GenDates ==
    {[year |-> y, month |-> m, day |-> d] :
        y \in FirstYear..(FirstYear + GenYears - 1), m \in 1..12, d \in {1, 15}}
    \cup {[year |-> y, month |-> m, day |-> DaysIn(y, m)] :
        y \in FirstYear..(FirstYear + GenYears - 1), m \in 1..12}

\* a < b on dates
DateLT(a, b) ==
    \/ a.year < b.year
    \/ a.year = b.year /\ a.month < b.month
    \/ a.year = b.year /\ a.month = b.month /\ a.day < b.day

\* a <= b on dates
DateLE(a, b) == a = b \/ DateLT(a, b)

\* start_date.replace(day=1)
ReplaceDay1(d) == [d EXCEPT !.day = 1]

\* d + relativedelta(months=1): the next month, the day cut to its length
AddMonth(d) ==
    LET y == IF d.month = 12 THEN d.year + 1 ELSE d.year
        m == IF d.month = 12 THEN 1 ELSE d.month + 1
    IN  [year |-> y, month |-> m,
         day |-> IF d.day <= DaysIn(y, m) THEN d.day ELSE DaysIn(y, m)]

\* current_date.strftime('%Y-%m'): year and month
YearMonth(d) == <<d.year, d.month>>

\* a loop test that stops one month early when end is a first of the month
GenContinueStrict(g) == DateLT(g.current_date, g.end_date)

\* while current_date <= end_date
GenContinue(g) == DateLE(g.current_date, g.end_date)

GenCall(a, b) ==
    [pc |-> "loop", start_date |-> a, end_date |-> b,
     current_date |-> ReplaceDay1(a), urls |-> <<>>]

GenIdle ==
    [pc |-> "idle", start_date |-> [year |-> FirstYear, month |-> 1, day |-> 1],
     end_date |-> [year |-> FirstYear, month |-> 1, day |-> 1],
     current_date |-> [year |-> FirstYear, month |-> 1, day |-> 1], urls |-> <<>>]

\* urls.append(...); current_date += relativedelta(months=1)
GenAppend ==
    /\ gen.pc = "loop"
    /\ GenContinue(gen)
    /\ gen' = [gen EXCEPT
                 !.urls = Append(@, [url |-> YearMonth(gen.current_date),
                                     year_month |-> YearMonth(gen.current_date)]),
                 !.current_date = AddMonth(@)]
    /\ UNCHANGED <<today, published, files, remote, run>>

\* return urls
GenReturn ==
    /\ gen.pc = "loop"
    /\ ~GenContinue(gen)
    /\ gen' = [gen EXCEPT !.pc = "done"]
    /\ UNCHANGED <<today, published, files, remote, run>>

Init ==
    /\ today = EpochDay
    /\ published = {}
    /\ files = [m \in Months |-> EmptyBag]
    /\ remote = EmptyDB
    /\ run = [r \in Runners |-> IdleRun]
    /\ gen = GenIdle

\* generate_month_urls called on any two dates
InitGen ==
    /\ today = EpochDay
    /\ published = {}
    /\ files = [m \in Months |-> EmptyBag]
    /\ remote = EmptyDB
    /\ run = [r \in Runners |-> IdleRun]
    /\ \E a \in GenDates, b \in GenDates : gen = GenCall(a, b)

NextGen ==
    \/ GenAppend
    \/ GenReturn

SpecGen == InitGen /\ [][NextGen]_vars

\* ----------------------------------------------------------- environment
RECURSIVE SumRows(_)
SumRows(ms) ==
    IF ms = {} THEN 0
    ELSE LET m == CHOOSE x \in ms : TRUE IN BagCardinality(files[m]) + SumRows(ms \ {m})

\* the number of rows the source has published
SourceRows == SumRows(Months)

\* the source publishes one more row, observed today or earlier, in the file
\* of its month
Publish(m, row) ==
    /\ MonthOf(row.date) = m
    /\ row.date <= today
    /\ SourceRows < MaxSourceRows
    /\ files' = [files EXCEPT ![m] = @ (+) SetToBag({row})]
    /\ published' = published \cup {m}
    /\ UNCHANGED <<today, remote, run, gen>>

\* a day passes
Tick ==
    /\ today < MaxDay
    /\ today' = today + 1
    /\ UNCHANGED <<published, files, remote, run, gen>>

\* ------------------------------------------------------------- the driver
\* main() up to the loop: download_from_drive, duckdb.connect, CREATE TABLEs,
\* the start of the period walk
StartBulk(r) ==
    /\ run[r].pc = "idle"
    /\ LET db == CreateLogTable(CreatePriceTable(remote)) IN
       run' = [run EXCEPT ![r] =
                 [IdleRun EXCEPT !.pc = "period", !.mode = "bulk", !.hasDb = TRUE,
                                 !.db = db, !.base = remote, !.src = files,
                                 !.cur = MonthOf(EpochDay), !.start = MonthOf(EpochDay),
                                 !.end = MonthOf(today)]]
    /\ UNCHANGED <<today, published, files, remote, gen>>

StartInc(r) ==
    /\ run[r].pc = "idle"
    /\ LET db0 == CreatePriceTable(remote)
           last == LastProcessedDate(db0)
           db == AfterLastProcessedDate(db0) IN
       run' = [run EXCEPT ![r] =
                 [IdleRun EXCEPT !.pc = IF last <= today THEN "period" ELSE "upload",
                                 !.mode = "inc", !.hasDb = TRUE,
                                 !.db = db, !.base = remote, !.src = files,
                                 !.cur = last, !.start = last, !.end = today]]
    /\ UNCHANGED <<today, published, files, remote, gen>>

StartLoad(r) ==
    /\ run[r].pc = "idle"
    /\ BagCardinality(remote.price) < MaxLoadedRows
    /\ run' = [run EXCEPT ![r] =
                 [IdleRun EXCEPT !.pc = "period", !.mode = "load", !.hasDb = TRUE,
                                 !.db = remote, !.base = remote, !.src = files,
                                 !.cur = TransactionMonth, !.start = TransactionMonth,
                                 !.end = TransactionMonth]]
    /\ UNCHANGED <<today, published, files, remote, gen>>

\* download_from_drive raises
StartFail(r, mode) ==
    /\ run[r].pc = "idle"
    /\ run' = [run EXCEPT ![r] = Failed([IdleRun EXCEPT !.mode = mode, !.base = remote, !.src = files], "store")]
    /\ UNCHANGED <<today, published, files, remote, gen>>

\* a download_parquet that raises on 404 in every script
StageRaise(r) ==
    /\ run[r].pc = "period"
    /\ LET rn == run[r]
           m == PeriodMonth(rn) IN
       run' = [run EXCEPT ![r] =
                 IF m \in published
                 THEN [rn EXCEPT !.pc = "staged", !.temp = [exists |-> TRUE, rows |-> files[m]]]
                 ELSE Failed(rn, "fetch")]
    /\ UNCHANGED <<today, published, files, remote, gen>>

\* download_parquet and CREATE TEMPORARY TABLE temp_price; a 404 ends the
\* period in the two sync modes and the run in load_transactions
Stage(r) ==
    /\ run[r].pc = "period"
    /\ LET rn == run[r]
           m == PeriodMonth(rn) IN
       run' = [run EXCEPT ![r] =
                 IF m \in published
                 THEN [rn EXCEPT !.pc = "staged", !.temp = [exists |-> TRUE, rows |-> files[m]]]
                 ELSE IF rn.mode = "load" THEN Failed(rn, "fetch")
                 ELSE NextPeriod([rn EXCEPT !.missing = @ \cup {rn.cur}])]
    /\ UNCHANGED <<today, published, files, remote, gen>>

\* requests.get fails other than by 404
FetchError(r) ==
    /\ run[r].pc = "period"
    /\ run' = [run EXCEPT ![r] = Failed(run[r], "fetch")]
    /\ UNCHANGED <<today, published, files, remote, gen>>

\* read_parquet rejects the downloaded file
DecodeError(r) ==
    /\ run[r].pc = "period"
    /\ PeriodMonth(run[r]) \in published
    /\ run' = [run EXCEPT ![r] = Failed(run[r], "decode")]
    /\ UNCHANGED <<today, published, files, remote, gen>>

\* a ledger write for the day whatever the INSERT counted
ProgressDatesAlways(rn, n) ==
    IF rn.mode = "inc" THEN {rn.cur}
    ELSE IF rn.mode = "bulk" THEN DistinctDates(rn.temp.rows)
    ELSE {}

\* the dates main writes to the ledger after a merge that inserted n rows:
\* the day when records_loaded > 0 (incremental), every date of the file
\* (backfill), none (load_transactions)
ProgressDates(rn, n) ==
    IF rn.mode = "inc" THEN (IF n > 0 THEN {rn.cur} ELSE {})
    ELSE IF rn.mode = "bulk" THEN DistinctDates(rn.temp.rows)
    ELSE {}

\* a period that ends without the DROP
KeepTemp(rn) == rn

\* DROP TABLE temp_price
DropTemp(rn) == [rn EXCEPT !.temp = NoTemp]

\* the rest of one period: the INSERT, the dates, DROP TABLE temp_price, the
\* ledger writes of main and the step to the next period
MergeOutcome(rn, now) ==
    LET f == IF rn.mode = "inc" THEN rn.cur ELSE NoFilter
        db == IF rn.mode = "load" THEN CreatePriceTableNoKey(rn.db) ELSE rn.db
        res == IF rn.mode = "load"
               THEN PlainInsert(db.priceTable, db.price, rn.temp.rows)
               ELSE DedupInsert(db.priceTable, db.price, rn.temp.rows, f)
        ds == ProgressDates(rn, res.rowcount)
        log == IF ds = {} THEN db.log
               ELSE RecordProgress(db.log, ds, now, PeriodMonth(rn), res.rowcount)
        last == [done |-> TRUE, table |-> db.priceTable, before |-> db.price,
                 batch |-> rn.temp.rows, filter |-> f, ok |-> res.ok,
                 rowcount |-> res.rowcount, after |-> res.price]
    IN  IF res.ok
        THEN NextPeriod(DropTemp([rn EXCEPT !.db = [db EXCEPT !.price = res.price, !.log = log],
                                            !.last = last,
                                            !.written = @ \o Ascending(ds)]))
        ELSE Failed([rn EXCEPT !.db = db, !.last = last], "constraint")

MergeStep(r) ==
    /\ run[r].pc = "staged"
    /\ run' = [run EXCEPT ![r] = MergeOutcome(run[r], today)]
    /\ UNCHANGED <<today, published, files, remote, gen>>

\* an upload that first checks that the remote file is still the one fetched
UploadChecked(r) ==
    /\ run[r].pc = "upload"
    /\ remote = run[r].base
    /\ remote' = run[r].db
    /\ run' = [run EXCEPT ![r] = [run[r] EXCEPT !.pc = "done", !.hasDb = FALSE,
                                                  !.final = run[r].db, !.db = EmptyDB]]
    /\ UNCHANGED <<today, published, files, gen>>

\* conn.close(); upload_to_drive; cleanup_temp_files
Upload(r) ==
    /\ run[r].pc = "upload"
    /\ remote' = run[r].db
    /\ run' = [run EXCEPT ![r] = [run[r] EXCEPT !.pc = "done", !.hasDb = FALSE,
                                                  !.final = run[r].db, !.db = EmptyDB]]
    /\ UNCHANGED <<today, published, files, gen>>

\* upload_to_drive raises
UploadFail(r) ==
    /\ run[r].pc = "upload"
    /\ run' = [run EXCEPT ![r] = Failed(run[r], "store")]
    /\ UNCHANGED <<today, published, files, remote, gen>>

\* the process exits
Finish(r) ==
    /\ run[r].pc \in {"done", "failed"}
    /\ run' = [run EXCEPT ![r] = IdleRun]
    /\ UNCHANGED <<today, published, files, remote, gen>>

RunStep(r) ==
    \/ StartBulk(r)
    \/ StartInc(r)
    \/ StartLoad(r)
    \/ \E mode \in {"bulk", "inc", "load"} : StartFail(r, mode)
    \/ Stage(r)
    \/ FetchError(r)
    \/ DecodeError(r)
    \/ MergeStep(r)
    \/ Upload(r)
    \/ UploadFail(r)
    \/ Finish(r)

Next ==
    \/ \E m \in Months, row \in Rows : Publish(m, row)
    \/ Tick
    \/ \E r \in SeqRunners : RunStep(r)

Spec == Init /\ [][Next]_vars

\* two runs that may overlap: a backfill (runner 1) started at any time and
\* an incremental run (runner 2) started while the backfill is at work.  The
\* source and the date stand still while a run is at work, and the
\* environment injects no failure.
AllIdle == \A r \in Runners : run[r].pc = "idle"

AtWork(r) == run[r].pc \in {"period", "staged", "upload"}

ConcStep(r) ==
    \/ r \in SeqRunners /\ StartBulk(r)
    \/ r \notin SeqRunners /\ (\E q \in SeqRunners : AtWork(q)) /\ StartInc(r)
    \/ Stage(r)
    \/ MergeStep(r)
    \/ Upload(r)
    \/ Finish(r)

NextConc ==
    \/ AllIdle /\ \E m \in Months, row \in Rows : Publish(m, row)
    \/ AllIdle /\ Tick
    \/ \E r \in Runners : ConcStep(r)

SpecConc == Init /\ [][NextConc]_vars

\* the same runs over the second slice of the source
NextWide ==
    \/ \E m \in Months, row \in WideRows : Publish(m, row)
    \/ Tick
    \/ \E r \in SeqRunners : RunStep(r)

SpecWide == Init /\ [][NextWide]_vars

\* ================================================================ claims
SyncModes == {"bulk", "inc"}

\* the rows of a batch the merge looks at: all of them, or those of one date
Considered(batch, f) == {t \in BagToSet(batch) : f = NoFilter \/ t.date = f}

\* the identities of a batch that the table does not hold yet
NewIdentities(before, batch, f) ==
    {Identity(t) : t \in Considered(batch, f)} \ Identities(before)

\* C1: no two rows of the persisted price table share the identity triple
\* (date, premise_code, item_code), whatever runs came before.
C1_NoDuplicateIdentity ==
    \A t \in BagToSet(remote.price) :
        /\ CopiesIn(t, remote.price) = 1
        /\ \A x \in BagToSet(remote.price) : SameId(x, t) => x = t

\* C2: merging the batch a merge has just handled once more leaves the table
\* as the first merge left it and inserts 0 rows; a merge that succeeded
\* succeeds again.
C2_IdempotentMerge ==
    \A r \in Runners :
        LET m == run[r].last
            again == DedupInsert(m.table, m.after, m.batch, m.filter)
        IN  (m.done /\ run[r].mode \in SyncModes) =>
                /\ again.price = m.after
                /\ again.rowcount = 0
                /\ (m.ok => again.ok)

\* a merge of a sync run that inserted rows into a table already holding rows
C2_Witness ==
    \E r \in Runners :
        /\ run[r].last.done
        /\ run[r].mode \in SyncModes
        /\ run[r].last.ok
        /\ run[r].last.rowcount > 0
        /\ run[r].last.before # EmptyBag

\* C3: every merge succeeds and adds exactly one row of the batch for each
\* identity of the batch that the table lacked, and nothing else.
C3_ExactMerge ==
    \A r \in Runners :
        LET m == run[r].last
            new == NewIdentities(m.before, m.batch, m.filter)
        IN  (m.done /\ run[r].mode \in SyncModes) =>
                /\ m.ok
                /\ m.before \sqsubseteq m.after
                /\ BagCardinality(m.after) = BagCardinality(m.before) + Cardinality(new)
                /\ Identities(m.after) = Identities(m.before) \cup new
                /\ \A t \in BagToSet(m.after) :
                       CopiesIn(t, m.after) > CopiesIn(t, m.before)
                           => t \in Considered(m.batch, m.filter)

\* C4: a merge inserts, and reports, N_distinct - M rows: the identities of
\* the batch less those the table already holds.
C4_RowCount ==
    \A r \in Runners :
        LET m == run[r].last
            ids == {Identity(t) : t \in Considered(m.batch, m.filter)}
            present == ids \cap Identities(m.before)
        IN  (m.done /\ run[r].mode \in SyncModes) =>
                /\ m.ok
                /\ m.rowcount = Cardinality(ids) - Cardinality(present)
                /\ BagCardinality(m.after) - BagCardinality(m.before) = m.rowcount

\* C5: no step takes a row out of the price table, neither out of the
\* persisted one nor out of a run's local copy, and no step changes a row.
C5_AppendOnly ==
    [][ /\ remote.price \sqsubseteq remote'.price
        /\ \A r \in Runners :
              (run[r].hasDb /\ run'[r].hasDb) =>
                  run[r].db.price \sqsubseteq run'[r].db.price ]_vars

\* a run that fetched a table with rows has pushed it back with more rows
C5_Witness ==
    \E r \in Runners :
        /\ run[r].pc = "done"
        /\ run[r].mode \in SyncModes
        /\ run[r].base.price # EmptyBag
        /\ remote.price # run[r].base.price
\* the dates a, a+1, ..., b in ascending order (empty when b < a)
DateRange(a, b) == [i \in 1..(IF b >= a THEN b - a + 1 ELSE 0) |-> a + i - 1]

\* C6: an incremental run that fetched a ledger with lastProcessedDate() = D
\* processes D, D+1, ..., today in ascending order, one date per merge,
\* skipping none, and inserts no row dated before D.
C6_Resumable ==
    \A r \in Runners :
        LET rn == run[r] IN
        (rn.mode = "inc" /\ rn.err # "store") =>
            /\ rn.start = LastProcessedDate(rn.base)
            /\ rn.pc \in {"period", "staged"} =>
                   /\ rn.visited = DateRange(rn.start, rn.cur - 1)
                   /\ rn.cur <= rn.end
            /\ rn.pc \in {"upload", "done"} => rn.visited = DateRange(rn.start, rn.end)
            /\ rn.last.done =>
                   \A t \in BagToSet(rn.last.after) :
                       CopiesIn(t, rn.last.after) > CopiesIn(t, rn.last.before)
                           => t.date = rn.last.filter /\ t.date >= rn.start /\ t.date <= rn.end
            /\ LET now == IF rn.hasDb THEN rn.db.price ELSE rn.final.price IN
               \A t \in BagToSet(now) :
                   CopiesIn(t, now) > CopiesIn(t, rn.base.price) => t.date >= rn.start

\* the scenario of the specification: empty ledger, today = 2022-01-03
C6_Witness ==
    \E r \in Runners :
        /\ run[r].mode = "inc"
        /\ run[r].pc = "done"
        /\ DOMAIN run[r].base.log = {}
        /\ run[r].end = EpochDay + 2
        /\ run[r].visited = <<EpochDay, EpochDay + 1, EpochDay + 2>>
        /\ remote.price # run[r].base.price

\* C7: in the two sync modes a period whose file is not found raises nothing,
\* leaves the price table and the ledger of the run as they are, and the
\* run goes on with the next period (or to the upload after the last one).
C7_MissingPeriod ==
    [][ \A r \in Runners :
          (/\ Stage(r)
           /\ run[r].mode \in SyncModes
           /\ PeriodMonth(run[r]) \notin published) =>
              /\ run'[r].pc \in {"period", "upload"}
              /\ run'[r].err = "none"
              /\ run'[r].db = run[r].db
              /\ run'[r].hasDb
              /\ run'[r].cur = run[r].cur + 1
              /\ run'[r].pc = "period" <=> run[r].cur < run[r].end
              /\ remote' = remote ]_vars

\* a run met a missing period, merged rows of a later one and finished
C7_Witness ==
    \E r \in Runners :
        /\ run[r].pc = "done"
        /\ run[r].mode \in SyncModes
        /\ run[r].missing # {}
        /\ run[r].last.done
        /\ run[r].last.rowcount > 0
        /\ \A p \in run[r].missing, d \in DOMAIN remote.log :
               IF run[r].mode = "inc" THEN d # p ELSE MonthOf(d) # p

\* C8: a run that ends well has merged every row that the source had
\* published, when the run began, for the days up to the run's today,
\* whatever the ledger recorded before.
C8_Retried ==
    \A r \in Runners :
        (run[r].pc = "done" /\ run[r].mode \in SyncModes) =>
            \A m \in Months : \A t \in BagToSet(run[r].src[m]) :
                t.date <= run[r].end => Identity(t) \in Identities(remote.price)

\* C9: when a run fails in a period, what it had merged and recorded until then is in
\* the persisted database, so lastProcessedDate() of the next run is the
\* last date the failed run recorded.
C9_CrashDurable ==
    \A r \in Runners :
        (/\ run[r].pc = "failed"
         /\ run[r].mode \in SyncModes
         /\ run[r].err \in {"fetch", "decode", "constraint"}) =>
            /\ run[r].final.price \sqsubseteq remote.price
            /\ DOMAIN run[r].final.log \subseteq DOMAIN remote.log
            /\ LastProcessedDate(remote) = LastProcessedDate(run[r].final)

\* C10: the persisted database is what the run fetched until the run
\* replaces it, which it does once, after the last period; a failed run has
\* removed its local copy and left the persisted database as fetched.
C10_PushOnce ==
    \A r \in Runners :
        LET rn == run[r] IN
        /\ rn.pc \in {"period", "staged", "upload", "failed"} => remote = rn.base
        /\ rn.pc \in {"period", "staged", "upload"} => rn.hasDb /\ rn.err = "none"
        /\ rn.pc = "failed" => ~rn.hasDb /\ rn.err # "none"
        /\ rn.pc \in {"upload", "done"} =>
               /\ rn.err = "none"
               /\ rn.mode \in SyncModes => rn.cur > rn.end
               /\ rn.mode = "load" => rn.visited = <<TransactionMonth>>
        /\ rn.pc = "done" => remote = rn.final /\ ~rn.hasDb

\* a run failed after it had merged rows: they are not in the persisted file
C10_Witness ==
    \E r \in Runners :
        /\ run[r].pc = "failed"
        /\ run[r].err \in {"fetch", "decode", "constraint"}
        /\ run[r].final.price # run[r].base.price
        /\ remote = run[r].base
\* C11: get_last_processed_date gives the greatest processed_date of the
\* ledger it finds, and the epoch date when the ledger has no entry or no
\* table; it leaves a ledger table behind, with the entries it found, and the
\* price rows as they were.
C11_LastProcessedDate ==
    [][ \A r \in Runners :
          StartInc(r) =>
              /\ remote.logTable /\ DOMAIN remote.log # {} =>
                     /\ run'[r].start \in DOMAIN remote.log
                     /\ \A d \in DOMAIN remote.log : d <= run'[r].start
              /\ ~remote.logTable \/ DOMAIN remote.log = {} => run'[r].start = EpochDay
              /\ run'[r].cur = run'[r].start
              /\ run'[r].db.logTable
              /\ run'[r].db.log = remote.log
              /\ run'[r].db.price = remote.price ]_vars

\* an incremental run found price rows but no ledger table (load_transactions
\* had filled the file) and went on from the epoch date with an empty ledger
C11_Witness ==
    \E r \in Runners :
        /\ run[r].mode = "inc"
        /\ run[r].pc = "period"
        /\ run[r].visited = <<>>
        /\ ~run[r].base.logTable
        /\ run[r].base.price # EmptyBag
        /\ run[r].db.logTable
        /\ run[r].start = EpochDay
\* the dates a step of a run wrote into the ledger
WrittenBy(r) ==
    {run'[r].written[i] : i \in (Len(run[r].written) + 1)..Len(run'[r].written)}

\* C12: a ledger write is an upsert by date: the written dates get the time
\* and the row count of this write (the count of the latest write, not a
\* sum), an entry that existed keeps its key and its url, and the entries of
\* all other dates stay as they are.
C12_Upsert ==
    [][ \A r \in Runners :
          (MergeStep(r) /\ run'[r].hasDb) =>
              LET old == run[r].db.log
                  new == run'[r].db.log
                  W == WrittenBy(r)
              IN  /\ DOMAIN new = DOMAIN old \cup W
                  /\ \A d \in W :
                         /\ new[d].processed_at = today
                         /\ new[d].records_loaded = run'[r].last.rowcount
                         /\ d \in DOMAIN old => new[d].file_url = old[d].file_url
                  /\ \A d \in DOMAIN old \ W : new[d] = old[d] ]_vars

\* an entry that recorded 1 row was written again by a merge that inserted
\* 1 row, on a later day: it holds 1, not 2, and the later time
C12_Witness ==
    \E r \in Runners : \E d \in DOMAIN run[r].base.log :
        /\ run[r].hasDb
        /\ \E i \in 1..Len(run[r].written) : run[r].written[i] = d
        /\ run[r].last.rowcount = 1
        /\ run[r].base.log[d].records_loaded = 1
        /\ run[r].db.log[d].records_loaded = 1
        /\ run[r].db.log[d].processed_at > run[r].base.log[d].processed_at
\* the month i months after the month of date d
MonthAfter(d, i) ==
    LET k == d.year * 12 + (d.month - 1) + i IN <<k \div 12, (k % 12) + 1>>

\* the number of calendar months from the month of a to the month of b
MonthSpan(a, b) == (b.year - a.year) * 12 + (b.month - a.month) + 1

\* C13: for start <= end, generate_month_urls returns one period for each
\* calendar month from the month of start to the month of end, in order.
C13_MonthPeriods ==
    (gen.pc = "done" /\ DateLE(gen.start_date, gen.end_date)) =>
        /\ Len(gen.urls) = MonthSpan(gen.start_date, gen.end_date)
        /\ \A i \in 1..Len(gen.urls) :
               /\ gen.urls[i].year_month = MonthAfter(gen.start_date, i - 1)
               /\ gen.urls[i].url = gen.urls[i].year_month

\* the scenario of the specification: 2022-01-01 to 2022-02-15
C13_Witness ==
    /\ gen.pc = "done"
    /\ gen.start_date = [year |-> FirstYear, month |-> 1, day |-> 1]
    /\ gen.end_date = [year |-> FirstYear, month |-> 2, day |-> 15]
    /\ gen.urls = << [url |-> <<FirstYear, 1>>, year_month |-> <<FirstYear, 1>>],
                     [url |-> <<FirstYear, 2>>, year_month |-> <<FirstYear, 2>>] >>
\* the price table a run leaves in the persisted file once its periods are
\* through: its local table when it gets to the upload, the fetched one
\* when it failed
Outcome(rn) ==
    IF rn.pc = "failed" THEN rn.base.price
    ELSE IF rn.hasDb THEN rn.db.price ELSE rn.final.price

\* a backfill and an incremental run resuming from the epoch date, on the
\* same fetched database, the same source files and the same day, both
\* through with their periods
SamePremises(b, i) ==
    /\ b.mode = "bulk" /\ i.mode = "inc"
    /\ b.pc \in {"upload", "done", "failed"}
    /\ i.pc \in {"upload", "done", "failed"}
    /\ b.base = i.base
    /\ b.src = i.src
    /\ i.start = EpochDay
    /\ b.start = MonthOf(EpochDay)
    /\ b.end = MonthOf(i.end)

C17_UploadUnguarded ==
    \A r \in Runners : run[r].pc = "upload" => ENABLED Upload(r)

\* a lost update: two runs fetched the same file, both pushed, and a price
\* row merged and pushed by the first is not in the file the second left
C17_Witness ==
    \E r \in Runners, q \in Runners :
        /\ r # q
        /\ run[r].pc = "done"
        /\ run[q].pc = "done"
        /\ run[r].base = run[q].base
        /\ remote = run[r].final
        /\ \E t \in BagToSet(run[q].final.price) :
               /\ ~BagIn(t, run[q].base.price)
               /\ ~BagIn(t, remote.price)
\* the number of rows a step added to the price table of run r
Inserted(r) == BagCardinality(run'[r].db.price) - BagCardinality(run[r].db.price)

\* C15: in incremental mode a day's ledger entry is written exactly when
\* the merge of that day inserted at least one row; a day that inserts
\* nothing (a day merged before, a file not found) leaves the ledger as it
\* was, and no day is written twice in a run.
C15_WriteIffInserted ==
    [][ \A r \in Runners :
          ( /\ run[r].mode = "inc"
            /\ run[r].pc \in {"period", "staged"}
            /\ run'[r] # run[r]
            /\ run'[r].hasDb ) =>
              LET old == run[r].db.log
                  new == run'[r].db.log
                  w == run'[r].written
              IN  /\ Inserted(r) > 0 =>
                         /\ WrittenBy(r) = {run[r].cur}
                         /\ run[r].cur \in DOMAIN new
                         /\ new[run[r].cur].records_loaded = Inserted(r)
                  /\ Inserted(r) = 0 => WrittenBy(r) = {} /\ new = old
                  /\ \A i, j \in 1..Len(w) : w[i] = w[j] => i = j ]_vars

\* an incremental run went over a day of the ledger again and inserted
\* nothing, went over a day whose file was not found, and wrote the day that
\* brought a row
C15_Witness ==
    \E r \in Runners :
        /\ run[r].mode = "inc"
        /\ run[r].pc = "upload"
        /\ run[r].start \in DOMAIN run[r].base.log
        /\ run[r].db.log[run[r].start] = run[r].base.log[run[r].start]
        /\ run[r].missing # {}
        /\ Len(run[r].written) = 1
        /\ Len(run[r].visited) = 3

\* C16: in backfill mode, once a month whose file was found is processed,
\* the ledger has an entry for every distinct date of the file's rows,
\* whether or not a row of that date was inserted, and each of them carries
\* the month's insert count.
C16_EveryDateOfFile ==
    [][ \A r \in Runners :
          (run[r].mode = "bulk" /\ MergeStep(r) /\ run'[r].hasDb) =>
              LET new == run'[r].db.log
                  ds == DistinctDates(run[r].temp.rows)
              IN  /\ WrittenBy(r) = ds
                  /\ ds \subseteq DOMAIN new
                  /\ \A d \in ds : new[d].records_loaded = Inserted(r) ]_vars

\* a month with two dates, one merged before and one new: both entries
\* carry the count 1
C16_Witness ==
    \E r \in Runners :
        /\ run[r].mode = "bulk"
        /\ run[r].hasDb
        /\ run[r].last.done
        /\ run[r].last.rowcount = 1
        /\ Cardinality(DistinctDates(run[r].last.batch)) = 2
        /\ \E t \in BagToSet(run[r].last.batch) : BagIn(t, run[r].last.before)
        /\ \A d \in DistinctDates(run[r].last.batch) :
               d \in DOMAIN run[r].db.log /\ run[r].db.log[d].records_loaded = 1

\* C18: over runs that do not overlap, the date lastProcessedDate() reads
\* from the persisted database never decreases: the ledger of the persisted
\* database never loses an entry.
C18_MonotonicProgress ==
    [][ /\ LastProcessedDate(remote') >= LastProcessedDate(remote)
        /\ remote.logTable => remote'.logTable
        /\ DOMAIN remote.log \subseteq DOMAIN remote'.log ]_vars

\* a run pushed a ledger whose latest date is later than the one it fetched
\* from a ledger that had entries
C18_Witness ==
    \E r \in Runners :
        /\ run[r].pc = "done"
        /\ remote = run[r].final
        /\ DOMAIN run[r].base.log # {}
        /\ LastProcessedDate(remote) > LastProcessedDate(run[r].base)

\* C19: the staging table lives from the start of a period to its end: no
\* staging table exists between periods or at the upload, the staged rows
\* are the rows of the period's own file, and the rows a merge inserts are
\* staged rows of that period.
C19_StagingIsolation ==
    [][ \A r \in Runners :
          /\ run'[r].pc \in {"idle", "period", "upload", "done"} => ~run'[r].temp.exists
          /\ Stage(r) /\ run'[r].pc = "staged" =>
                 /\ ~run[r].temp.exists
                 /\ run'[r].temp.rows = files[PeriodMonth(run[r])]
          /\ MergeStep(r) =>
                 /\ run[r].temp.exists
                 /\ run[r].temp.rows \sqsubseteq files[PeriodMonth(run[r])]
                 /\ run'[r].last.batch = run[r].temp.rows
                 /\ \A t \in BagToSet(run'[r].last.after) :
                        \/ CopiesIn(t, run'[r].last.after) = CopiesIn(t, run'[r].last.before)
                        \/ BagIn(t, run[r].temp.rows)
          /\ Upload(r) => ~run[r].temp.exists ]_vars

\* a run staged and merged two periods, each with rows, and is at the upload
C19_Witness ==
    \E r \in Runners :
        /\ run[r].pc = "upload"
        /\ ~run[r].temp.exists
        /\ Len(run[r].visited) >= 2
        /\ run[r].last.done /\ run[r].last.rowcount > 0
        /\ \E t \in BagToSet(run[r].db.price) :
               /\ ~BagIn(t, run[r].base.price)
               /\ ~BagIn(t, run[r].last.batch)

====
